---- MODULE Spec2Model ----
(***************************************************************************)
(* vxcube_api: the Analysis/Task object graph (objects.py) and the         *)
(* progress subscription generator Analysis.subscribe_progress (Spec),     *)
(* the pagination helpers iterator and all_items of utils.py (PageSpec),   *)
(* the CureIt object (CureSpec), and the request layer of raw_api.py with  *)
(* the hydration decorator of api.py (ApiSpec).                            *)
(*                                                                         *)
(* An object is a function from the names of the attributes that are set   *)
(* to their values: a slot that was never assigned is absent from the      *)
(* DOMAIN (hasattr is membership in the DOMAIN).  A keyword-argument       *)
(* payload is a function from keys to values in the same way.              *)
(***************************************************************************)
EXTENDS Integers, Sequences, FiniteSets, TLC

\* ------------------------------------------------------------------------
\* Python values
\* ------------------------------------------------------------------------
None == [t |-> "none", s |-> "", n |-> 0]
Str(x) == [t |-> "str", s |-> x, n |-> 0]
Num(i) == [t |-> "int", s |-> "", n |-> i]
Time(x) == [t |-> "time", s |-> x, n |-> 0]

\* an object (or a payload) with no attribute (no key) at all
Empty == [k \in {} |-> None]

\* dict(a, **b): the keys of both, b's value where both have the key
Merged(a, b) == [k \in (DOMAIN a) \cup (DOMAIN b) |-> IF k \in DOMAIN b THEN b[k] ELSE a[k]]

\* getattr(obj, key, default)
getattr(obj, key, default) == IF key \in DOMAIN obj THEN obj[key] ELSE default

\* ------------------------------------------------------------------------
\* Bounds of the model
\* ------------------------------------------------------------------------
\* number of Tasks of the initial payload
MaxTasks == 2
\* number of direct calls (update/restart/refresh) in one behaviour
MaxOps == 1
\* number of progress events one subscription delivers
MaxEvents == 2
\* number of subscriptions in one behaviour
MaxSubs == 1

\* ------------------------------------------------------------------------
\* objects.py: slots
\* ------------------------------------------------------------------------
Task_variable_slots == {"message", "progress", "verdict", "rules"}

Task_slots == Task_variable_slots \cup
    {"id", "status", "platform_code", "start_date", "end_date", "maliciousness", "_raw_api"}

Task_time_fields == {"start_date", "end_date"}

Analysis_slots == {"id", "sha1", "sample_id", "size", "format_name", "start_date",
                   "user_name", "tasks", "_raw_api"}

Analysis_time_fields == {"start_date"}

Statuses == {"in queue", "processing", "successful", "failed", "deleted"}

\* _convert_time: a falsy string gives None, anything else is parsed
convert_time(v) == IF v = None \/ v = Str("") THEN None ELSE Time(v.s)

\* ApiObject.update: only the keys that are slots are assigned
ApiObject_update(self, kwargs, all_slots, time_fields) ==
    [k \in (DOMAIN self) \cup ((DOMAIN kwargs) \cap all_slots) |->
        IF k \in DOMAIN kwargs
        THEN IF k \in time_fields THEN convert_time(kwargs[k]) ELSE kwargs[k]
        ELSE self[k]]

\* variant: a status change resets only the attributes of a processing Task
SetDefaults_processing_only(kwargs) ==
    [k \in (DOMAIN kwargs) \cup {"message", "progress"} |->
        IF k \in DOMAIN kwargs THEN kwargs[k] ELSE None]

\* kwargs.setdefault(sl, None) for every variable slot
SetDefaults(kwargs) ==
    [k \in (DOMAIN kwargs) \cup Task_variable_slots |->
        IF k \in DOMAIN kwargs THEN kwargs[k] ELSE None]

\* variant: the variable slots are reset whenever the payload names a status
StatusChanges_whenever_named(self, kwargs) == "status" \in DOMAIN kwargs

\* the condition of Task.update under which the variable slots are reset
StatusChanges(self, kwargs) ==
    "status" \in DOMAIN kwargs /\ kwargs["status"] # getattr(self, "status", None)

\* Task.update
Task_update(self, kwargs) ==
    ApiObject_update(self,
                     IF StatusChanges(self, kwargs) THEN SetDefaults(kwargs) ELSE kwargs,
                     Task_slots, Task_time_fields)

\* Task(**kwargs): ApiObject.__init__ calls update on the new object
Task_init(kwargs) == Task_update(Empty, kwargs)

Task_is_failed(task) == getattr(task, "status", None) = Str("failed")

Task_is_deleted(task) == getattr(task, "status", None) = Str("deleted")

\* variant: only a successful Task counts as finished
Task_is_finished_success_only(task) == getattr(task, "status", None) = Str("successful")

Task_is_finished(task) ==
    ~ (getattr(task, "status", None) = Str("in queue")
       \/ getattr(task, "status", None) = Str("processing"))

Task_is_processing(task) == ~ Task_is_finished(task)

\* variant: a Task whose id is not known locally is appended
RECURSIVE update_task_by_id_appending(_, _, _)
update_task_by_id_appending(tasks, task_id, data) ==
    IF tasks = <<>> THEN <<Task_init(data)>>
    ELSE IF Head(tasks)["id"] = task_id
         THEN <<Task_update(Head(tasks), data)>> \o Tail(tasks)
         ELSE <<Head(tasks)>> \o update_task_by_id_appending(Tail(tasks), task_id, data)

\* variant: the first local Task is updated whatever its id
update_task_by_id_first(tasks, task_id, data) ==
    IF tasks = <<>> THEN <<>> ELSE <<Task_update(Head(tasks), data)>> \o Tail(tasks)

\* Analysis._update_task_by_id: the first Task with that id is updated
RECURSIVE update_task_by_id(_, _, _)
update_task_by_id(tasks, task_id, data) ==
    IF tasks = <<>> THEN <<>>
    ELSE IF Head(tasks)["id"] = task_id
         THEN <<Task_update(Head(tasks), data)>> \o Tail(tasks)
         ELSE <<Head(tasks)>> \o update_task_by_id(Tail(tasks), task_id, data)

\* for task in tasks: self._update_task_by_id(task.get("id"), task)
RECURSIVE update_tasks(_, _)
update_tasks(tasks, payloads) ==
    IF payloads = <<>> THEN tasks
    ELSE update_tasks(update_task_by_id(tasks, getattr(Head(payloads), "id", None), Head(payloads)),
                      Tail(payloads))

\* kwargs without the key "tasks" (kwargs.pop("tasks", []))
WithoutTasks(kwargs) == [k \in (DOMAIN kwargs) \ {"tasks"} |-> kwargs[k]]

PoppedTasks(kwargs) == IF "tasks" \in DOMAIN kwargs THEN kwargs["tasks"] ELSE <<>>

\* Analysis.update
Analysis_update(self, kwargs) ==
    IF "tasks" \in DOMAIN self
    THEN ApiObject_update(
            [self EXCEPT !["tasks"] = update_tasks(self["tasks"], PoppedTasks(kwargs))],
            WithoutTasks(kwargs), Analysis_slots, Analysis_time_fields)
    ELSE ApiObject_update(
            self,
            Merged(WithoutTasks(kwargs),
                   [k \in {"tasks"} |->
                       [i \in 1..Len(PoppedTasks(kwargs)) |->
                           Task_init(Merged([k2 \in {"_raw_api"} |-> getattr(kwargs, "_raw_api", None)],
                                            PoppedTasks(kwargs)[i]))]]),
            Analysis_slots, Analysis_time_fields)

\* Analysis(**kwargs)
Analysis_init(kwargs) == Analysis_update(Empty, kwargs)

\* variant: any(...) instead of all(...)
Analysis_is_finished_any(self) ==
    \E i \in 1..Len(self["tasks"]) : Task_is_finished(self["tasks"][i])

\* Analysis.is_finished
Analysis_is_finished(self) ==
    \A i \in 1..Len(self["tasks"]) : Task_is_finished(self["tasks"][i])

Analysis_is_processing(self) == ~ Analysis_is_finished(self)

\* the meanings the build gives to `/` on two ints: true division (Python 3)
\* or floor division (Python 2.7, no `from __future__ import division`)
Divisions == {"true", "floor"}

\* total / n: the quotient as whole + rest/n
Quotient(total, n, division) ==
    [whole |-> total \div n, rest |-> IF division = "true" THEN total % n ELSE 0]

\* what one Task adds to the total: task.progress when it is processing
\* (adding None to an int raises TypeError), else 100
Task_progress_term(task) ==
    IF Task_is_processing(task)
    THEN IF task["progress"].t = "int"
         THEN [err |-> "none", n |-> task["progress"].n]
         ELSE [err |-> "TypeError", n |-> 0]
    ELSE [err |-> "none", n |-> 100]

RECURSIVE Sum(_)
Sum(ns) == IF ns = <<>> THEN 0 ELSE Head(ns) + Sum(Tail(ns))

\* Analysis.total_progress
Analysis_total_progress(self, division) ==
    LET terms == [i \in 1..Len(self["tasks"]) |-> Task_progress_term(self["tasks"][i])]
    IN  IF \E i \in 1..Len(terms) : terms[i].err # "none"
        THEN [err |-> "TypeError", whole |-> 0, rest |-> 0]
        ELSE IF Len(terms) = 0
        THEN [err |-> "ZeroDivisionError", whole |-> 0, rest |-> 0]
        ELSE [err |-> "none",
              whole |-> Quotient(Sum([i \in 1..Len(terms) |-> terms[i].n]), Len(terms), division).whole,
              rest |-> Quotient(Sum([i \in 1..Len(terms) |-> terms[i].n]), Len(terms), division).rest]

\* ------------------------------------------------------------------------
\* Payloads the service can answer with
\* ------------------------------------------------------------------------
RawApi == Str("raw_api")

WithId(body, id) == Merged(body, [k \in {"id"} |-> Num(id)])

\* Task payloads of the initial fetch (without their id)
InitTaskBodies ==
    {[status |-> Str("in queue")],
     [status |-> Str("processing"), progress |-> Num(35), message |-> Str("m")],
     [status |-> Str("successful"), verdict |-> Str("clean")],
     [status |-> Str("failed")]}

\* Task payloads of later answers (without their id)
TaskBodies ==
    {[status |-> Str("successful"), verdict |-> Str("guilty")],
     [status |-> Str("successful"), verdict |-> Str("guilty"), rules |-> Str("r"), suspicion |-> Num(3)],
     [status |-> Str("processing"), message |-> Str("test_message"), progress |-> Num(99)],
     [status |-> Str("deleted")],
     [status |-> Str("in queue"), start_date |-> Str("2018-04-08")],
     [message |-> Str("111")]}

\* the id of a Task that is never a local one
UnknownTaskId == MaxTasks + 7

\* the full-state payloads of an Analysis (GET, restart)
AnalysisPayloads ==
    {[id |-> Num(42)],
     [tasks |-> <<WithId([status |-> Str("successful"), verdict |-> Str("guilty")], 1),
                  WithId([status |-> Str("failed")], 2)>>],
     [sha1 |-> Str("abc"), unknown_key |-> Num(1),
      tasks |-> <<WithId([status |-> Str("processing"), progress |-> Num(65)], UnknownTaskId),
                  WithId([status |-> Str("processing"), progress |-> Num(65)], 1)>>],
     [id |-> Num(1),
      tasks |-> <<WithId([message |-> Str("222")], 2), WithId([message |-> Str("111")], 1)>>],
     [id |-> Num(42), start_date |-> Str(""),
      tasks |-> <<WithId([status |-> Str("successful"), verdict |-> Str("guilty"), rules |-> Str("r")], 2)>>]}

InitTaskLists ==
    UNION {[1..n -> InitTaskBodies] : n \in 0..MaxTasks}

InitPayloads ==
    {Merged([id |-> Num(1), _raw_api |-> RawApi],
            [k \in {"tasks"} |-> [i \in 1..Len(bodies) |-> WithId(bodies[i], i)]]) :
        bodies \in InitTaskLists}

\* ------------------------------------------------------------------------
\* The streaming connection
\* ------------------------------------------------------------------------
\* progress events the service sends: Task 1 may be a local one, the unknown
\* Task never is
Events ==
    {[task_id |-> Num(1), progress |-> Num(20), message |-> Str("a")],
     [task_id |-> Num(1), progress |-> Num(70)],
     [task_id |-> Num(UnknownTaskId), progress |-> Num(50)]}

\* a received text message: JSON text of an event, the empty string, or text
\* that is not JSON
JsonMsg(ev) == [kind |-> "json", body |-> ev]
EmptyMsg == [kind |-> "empty", body |-> Empty]
BadMsg == [kind |-> "bad", body |-> Empty]

Messages == {JsonMsg(ev) : ev \in Events} \cup {EmptyMsg, BadMsg}

\* `not msg`
falsy(msg) == msg.kind = "empty"

\* json.loads raises ValueError unless the text is JSON
json_loads_ok(msg) == msg.kind = "json"
json_loads(msg) == msg.body

\* a call recorded on the collaborators (the WebSocket, the HTTP GET):
\* the operation, its argument and how it ended
Call(op, arg, res) == [op |-> op, arg |-> arg, res |-> res]

\* ------------------------------------------------------------------------
\* Analysis.subscribe_progress as a generator
\* ------------------------------------------------------------------------
\* variant: no except clause, the peer-closed exception stays pending
except_clause_missing(exc) == exc

\* the except clause: the exception still pending when the finally block starts
except_clause(exc) == IF exc = "closed" THEN "none" ELSE exc

\* variant: the finally block only closes the connection
Finally_without_refresh == <<"close">>

\* variant: the finally block fetches the Analysis before it closes the connection
Finally_refresh_first == <<"refresh", "close">>

\* the statements of the finally block, in order
Finally == <<"close", "refresh">>

\* variant: the receive loop is entered without the initiation message
after_connect_skips_send(res) ==
    IF res = "ok" THEN [pc |-> "recv", pending |-> "none"]
    ELSE [pc |-> "finally", pending |-> except_clause(res)]

\* where the body continues after ws.connect
after_connect(res) ==
    IF res = "ok" THEN [pc |-> "send", pending |-> "none"]
    ELSE [pc |-> "finally", pending |-> except_clause(res)]

\* where the body continues after ws.send
after_send(res) ==
    IF res = "ok" THEN [pc |-> "recv", pending |-> "none"]
    ELSE [pc |-> "finally", pending |-> except_clause(res)]

\* variant: an empty message is skipped (continue) instead of ending the loop
after_recv_continue(res, msg) ==
    IF res = "end" THEN [pc |-> "finally", pending |-> "none"]
    ELSE IF res # "msg" THEN [pc |-> "finally", pending |-> except_clause(res)]
    ELSE IF falsy(msg) THEN [pc |-> "recv", pending |-> "none"]
    ELSE IF ~ json_loads_ok(msg) THEN [pc |-> "finally", pending |-> except_clause("error")]
    ELSE [pc |-> "yielded", pending |-> "none"]

\* one pass of `for msg in ws`: res is "msg" with a message, "end" when the
\* iterator is exhausted, or the exception that recv raises
after_recv(res, msg) ==
    IF res = "end" THEN [pc |-> "finally", pending |-> "none"]
    ELSE IF res # "msg" THEN [pc |-> "finally", pending |-> except_clause(res)]
    ELSE IF falsy(msg) THEN [pc |-> "finally", pending |-> "none"]
    ELSE IF ~ json_loads_ok(msg) THEN [pc |-> "finally", pending |-> except_clause("error")]
    ELSE [pc |-> "yielded", pending |-> "none"]

\* variant: the progress of an event is written to every Task
loop_body_updates_all(self, msg) ==
    IF json_loads_ok(msg)
    THEN [self EXCEPT !["tasks"] =
            [i \in 1..Len(self["tasks"]) |->
                Task_update(self["tasks"][i],
                            [k \in {"progress"} |-> json_loads(msg)["progress"]])]]
    ELSE self

\* the Analysis after the loop body has handled one message
loop_body(self, msg) == self

\* variant: the yield is not protected by the try, closing just ends the generator
on_close_unprotected == [pc |-> "done", pending |-> "exit"]

\* where a generator suspended at the yield continues when it is closed
\* (GeneratorExit is raised at the yield, inside the try)
on_close == [pc |-> "finally", pending |-> except_clause("exit")]

\* how the generator ends for its caller, given what is pending after finally
Outcome(pending) == IF pending = "none" THEN "StopIteration" ELSE pending

\* variant: iterating a generator that has ended runs its body again
after_done_restarts == [pc |-> "connect"]

\* next() on a generator that has ended: it raises StopIteration, no statement
\* of the body runs and the generator stays ended
after_done == [pc |-> "done"]

\* ------------------------------------------------------------------------
\* utils.py: iterator and all_items
\* ------------------------------------------------------------------------
\* largest page size (count_per_request) of a call
MaxPageSize == 2
\* largest number of items the service holds
MaxItems == 3
\* number of page requests one call may make in a behaviour
MaxPages == 4

Min(a, b) == IF a < b THEN a ELSE b

\* kwargs without the keys of ks (kwargs.pop(key, default) for each)
Popped(kwargs, ks) == [k \in (DOMAIN kwargs) \ ks |-> kwargs[k]]

\* a dict value with the keys and values of d
Dict(d) == [t |-> "dict", s |-> "", n |-> 0, d |-> d]

\* the truth value of a Python value (`if item_key`, `not self.retries`)
truthy(v) ==
    v # None /\ v # Str("") /\ v # Num(0) /\ v # Dict(Empty) /\ v # [t |-> "list", s |-> "", n |-> 0, d |-> <<>>]

\* a page-fetch function: it serves slices of range(total), bare or under the
\* key "items" of an envelope; `width` is how many items it gives when asked
\* for `count`: as many, at most one (the service caps the page), or one more
Funcs == [total : 0..MaxItems, shape : {"bare", "envelope"}, width : {"asked", "capped", "long"}]

PageWidth(f, count) ==
    IF f.width = "asked" THEN count
    ELSE IF f.width = "capped" THEN Min(count, 1)
    ELSE count + 1

\* items[offset : offset + n] of range(total)
Slice(total, offset, n) ==
    [i \in 1..(IF Min(total, offset + n) > offset THEN Min(total, offset + n) - offset ELSE 0) |->
        Num(offset + i - 1)]

\* func(count=..., offset=..., **kwargs): the answer of the page-fetch function
func(f, kwargs) ==
    [shape |-> f.shape,
     items |-> Slice(f.total, kwargs["offset"].n, PageWidth(f, kwargs["count"].n))]

\* the keyword arguments of one page request
PageRequest(count_per_request, offset, kwargs) ==
    Merged(kwargs, [count |-> Num(count_per_request), offset |-> Num(offset)])

\* `if item_key: items = items[item_key]`: indexing a list with a string
\* raises TypeError; an envelope that is not unwrapped is iterated as a dict
\* (its keys)
unwrap(resp, item_key) ==
    IF truthy(item_key)
    THEN IF resp.shape = "envelope"
         THEN [err |-> "none", items |-> resp.items]
         ELSE [err |-> "TypeError", items |-> <<>>]
    ELSE IF resp.shape = "bare"
         THEN [err |-> "none", items |-> resp.items]
         ELSE [err |-> "none", items |-> <<Str("items")>>]

\* variant: the offset advances by the number of items the page returned
iterator_offset_by_page_length(offset, count_per_request, resp) == offset + Len(resp.items)

\* iterator: offset += count_per_request
iterator_offset(offset, count_per_request, resp) == offset + count_per_request

\* variant: only an empty page ends the sequence
iterator_ends_on_empty_page(items, count_per_request) == Len(items) = 0

\* variant: a page of exactly the page size ends the sequence too
iterator_ends_at_full_page(items, count_per_request) ==
    Len(items) = 0 \/ Len(items) <= count_per_request

\* iterator: `if len(items) == 0 or len(items) < count_per_request: return`
iterator_ends(items, count_per_request) ==
    Len(items) = 0 \/ Len(items) < count_per_request

\* the arguments of a call of iterator or all_items
Call_start(c) == getattr(c.kwargs, "offset", Num(0)).n

Call_filters(c) == Popped(c.kwargs, {"offset", "count"})

\* iterator(...) called: a generator, nothing of its body has run
iterator_created ==
    [pc |-> "created", offset |-> 0, reqs |-> <<>>, pages |-> <<>>, items |-> <<>>, i |-> 0,
     out |-> <<>>, err |-> "none"]

\* the generator runs `items = func(...)` and on to the next yield or return
iterator_fetch(g, c) ==
    LET request == PageRequest(c.count_per_request, g.offset, Call_filters(c))
        resp == func(c.func, request)
        got == unwrap(resp, c.item_key)
        g1 == [g EXCEPT !.reqs = Append(@, request),
                        !.offset = iterator_offset(g.offset, c.count_per_request, resp)]
    IN  IF got.err # "none"
        THEN [g1 EXCEPT !.pc = "raised", !.err = got.err]
        ELSE IF got.items = <<>>
        THEN [g1 EXCEPT !.pc = "done", !.pages = Append(@, <<>>), !.items = <<>>, !.i = 0]
        ELSE [g1 EXCEPT !.pc = "yielded", !.pages = Append(@, got.items),
                        !.items = got.items, !.i = 1, !.out = Append(@, got.items[1])]

\* the next() of the caller makes a page request
iterator_fetches(g, c) ==
    \/ g.pc = "created"
    \/ /\ g.pc = "yielded" /\ g.i = Len(g.items)
       /\ ~ iterator_ends(g.items, c.count_per_request)

\* next() on the generator of iterator: up to the next yield or to the return
iterator_next(g, c) ==
    IF g.pc = "created"
    THEN iterator_fetch([g EXCEPT !.offset = Call_start(c)], c)
    ELSE IF g.i < Len(g.items)
    THEN [g EXCEPT !.i = @ + 1, !.out = Append(@, g.items[g.i + 1])]
    ELSE IF iterator_ends(g.items, c.count_per_request)
    THEN [g EXCEPT !.pc = "done"]
    ELSE iterator_fetch(g, c)

\* all_items: offset += count_per_request
all_items_offset(offset, count_per_request, resp) == offset + count_per_request

\* all_items: `if len(items) == 0 or len(items) < count_per_request: return _all`
all_items_ends(items, count_per_request) ==
    Len(items) = 0 \/ Len(items) < count_per_request

\* variant: only the last page is kept
all_items_extend_replacing(all, items) == items

\* _all.extend(items), or _all.append(item) for each item
all_items_extend(all, items) == all \o items

\* all_items(...) called: offset = kwargs.pop("offset", 0), _all = []
all_items_called(c) ==
    [pc |-> "called", offset |-> Call_start(c), reqs |-> <<>>, pages |-> <<>>, all |-> <<>>,
     ret |-> <<>>, err |-> "none"]

\* one pass of the `while True` of all_items
all_items_pass(a, c) ==
    LET request == PageRequest(c.count_per_request, a.offset, Call_filters(c))
        resp == func(c.func, request)
        got == unwrap(resp, c.item_key)
        a1 == [a EXCEPT !.reqs = Append(@, request),
                        !.offset = all_items_offset(a.offset, c.count_per_request, resp)]
        a2 == [a1 EXCEPT !.pages = Append(@, got.items),
                         !.all = all_items_extend(@, got.items)]
    IN  IF got.err # "none"
        THEN [a1 EXCEPT !.pc = "raised", !.err = got.err]
        ELSE IF all_items_ends(got.items, c.count_per_request)
        THEN [a2 EXCEPT !.pc = "done", !.ret = a2.all]
        ELSE a2

\* the keyword arguments callers pass besides func, count_per_request, item_key
CallKwargs ==
    {Empty,
     [offset |-> Num(2)],
     [count |-> Num(4), offset |-> Num(1), sha1 |-> Str("sha1")],
     [search |-> Str("lost")]}

\* the calls of iterator/all_items
Calls ==
    [func : Funcs, count_per_request : 0..MaxPageSize, item_key : {None, Str("items")},
     kwargs : CallKwargs]

\* no call of iterator or all_items was made
NoCall == [func |-> [total |-> 0, shape |-> "bare", width |-> "asked"], count_per_request |-> 0,
           item_key |-> None, kwargs |-> Empty]

NoGen == [iterator_created EXCEPT !.pc = "none"]

NoAll == [all_items_called(NoCall) EXCEPT !.pc = "none"]

\* ------------------------------------------------------------------------
\* objects.py: CureIt
\* ------------------------------------------------------------------------
CureIt_slots == {"status", "retries", "analysis_id", "task_id", "_raw_api"}

CureIt_statuses == {"successful", "failed", "deleted", "processing", "small_file"}

\* kwargs.setdefault("analysis_id", None); kwargs.setdefault("task_id", None)
CureIt_defaults(kwargs) ==
    [k \in (DOMAIN kwargs) \cup {"analysis_id", "task_id"} |->
        IF k \in DOMAIN kwargs THEN kwargs[k] ELSE None]

\* variant: only the analysis_id is looked at
CureIt_unbound_no_analysis(self) == ~ truthy(self["analysis_id"])

\* the condition of CureIt.__init__ under which the validation error is raised
CureIt_unbound(self) == ~ truthy(self["analysis_id"]) /\ ~ truthy(self["task_id"])

\* CureIt(**kwargs): the object made and the exception raised, if any
CureIt_init(kwargs) ==
    LET self == ApiObject_update(Empty, CureIt_defaults(kwargs), CureIt_slots, {})
    IN  IF CureIt_unbound(self)
        THEN [raised |-> "VxCubeApiException", obj |-> Empty]
        ELSE [raised |-> "none", obj |-> self]

\* the resource a CureIt is bound to (__repr__, _api)
CureIt_bound(self) ==
    IF truthy(self["analysis_id"])
    THEN [type |-> "Analysis", id |-> self["analysis_id"]]
    ELSE [type |-> "Task", id |-> self["task_id"]]

\* CureIt.__repr__: "CureIt ({type}[{id}]) status: {status}"; reading a slot
\* that was never assigned raises AttributeError
CureIt_repr(self) ==
    IF "status" \notin DOMAIN self
    THEN [err |-> "AttributeError", type |-> "", id |-> None, status |-> None]
    ELSE [err |-> "none", type |-> CureIt_bound(self).type, id |-> CureIt_bound(self).id,
          status |-> self["status"]]

\* `not self.retries or "after" not in self.retries`
CureIt_retries_open(retries) ==
    ~ truthy(retries) \/ "after" \notin DOMAIN retries.d

\* CureIt.can_retrying: "True", "False", or the AttributeError of a slot that
\* was never assigned
CureIt_can_retrying(self) ==
    IF "status" \notin DOMAIN self THEN "AttributeError"
    ELSE IF self["status"] = Str("deleted") THEN "True"
    ELSE IF self["status"] = Str("failed")
    THEN IF "retries" \notin DOMAIN self THEN "AttributeError"
         ELSE IF CureIt_retries_open(self["retries"]) THEN "True" ELSE "False"
    ELSE "False"

\* CureIt.retry: the answer of the PUT is merged when it is a dict
CureIt_retry(self, data) ==
    IF data.t = "dict" THEN ApiObject_update(self, data.d, CureIt_slots, {}) ELSE self

\* the values of the key "retries" in the payloads of the service
RetriesValues ==
    {None, Dict(Empty), Dict([left |-> Num(2)]), Dict([left |-> Num(0)]),
     Dict([left |-> Num(0), after |-> Str("2018-04-08T15:16:23")]),
     Dict([left |-> Num(1), after |-> Str("2018-04-08T15:16:23")])}

\* the keyword arguments with or without a key
Optional(key, values) ==
    {Empty} \cup {[k \in {key} |-> v] : v \in values}

\* the keyword arguments of CureIt(...): the ids that Task.cureit and
\* Analysis.cureit pass and the payload of the service, which has a status
CureItPayloads ==
    {Merged(Merged(a, t), Merged(st, r)) :
        a \in Optional("analysis_id", {None, Num(42)}),
        t \in Optional("task_id", {None, Num(7)}),
        st \in {[status |-> Str(x)] : x \in CureIt_statuses},
        r \in Optional("retries", RetriesValues)}

\* the answers of the retry request (PUT .../cureit)
RetryAnswers ==
    {None,
     Dict([status |-> Str("processing")]),
     Dict([status |-> Str("failed"), retries |-> Dict([left |-> Num(0), after |-> Str("2018-04-08T15:16:23")])]),
     Dict([status |-> Str("processing"), task_id |-> Num(7)])}

\* CureIt(...) was not called
NoCureIt == [pc |-> "none", kwargs |-> Empty, raised |-> "none", obj |-> Empty, net |-> <<>>]

\* ------------------------------------------------------------------------
\* raw_api.py: VxCubeApiRequest
\* ------------------------------------------------------------------------
\* a Python list
List(xs) == [t |-> "list", s |-> "", n |-> 0, d |-> xs]

\* what one session.request(...) gives: a response, or an exception raised
Answered(resp) == [exc |-> "none", resp |-> resp]

Raised(exc) == [exc |-> exc, resp |-> Empty]

\* variant: the second attempt is made on the session as it is
send_request_without_close(args, first, second) ==
    IF first.exc # "ConnectionError"
    THEN [session |-> <<Call("request", args, first.exc)>>, out |-> first]
    ELSE [session |-> <<Call("request", args, first.exc),
                        Call("request", args, second.exc)>>,
          out |-> second]

\* VxCubeApiRequest.send_request: the calls made on the session and what the
\* caller gets; first and second are what the transport does with the first
\* and with a second attempt
send_request(args, first, second) ==
    IF first.exc # "ConnectionError"
    THEN [session |-> <<Call("request", args, first.exc)>>, out |-> first]
    ELSE [session |-> <<Call("request", args, first.exc),
                        Call("close", None, "ok"),
                        Call("request", args, second.exc)>>,
          out |-> second]

\* request_headers = dict(self.headers), updated with the headers of the call
request_headers(self_headers, headers) ==
    IF headers = None THEN self_headers ELSE Merged(self_headers, headers.d)

\* the arguments request() passes to send_request
request_args(self_headers, method, url, headers, output_file) ==
    [method |-> method, url |-> url, headers |-> request_headers(self_headers, headers),
     stream |-> truthy(output_file)]

\* response.ok
Response_ok(response) == response.status_code < 400

\* json_response: the decoded body, None when the body is no JSON or when
\* an output file was asked for
json_response(response, output_file) ==
    IF ~ truthy(output_file) /\ response.body.valid THEN response.body.json ELSE None

\* what request() returns for a successful response
request_returns(response, output_file) ==
    IF truthy(output_file) THEN None
    ELSE IF json_response(response, output_file) # None
    THEN json_response(response, output_file)
    ELSE IF truthy(response.body.text) THEN response.body.text
    ELSE None

\* the text of one field of the validation summary
field_info(v) ==
    IF v.t = "list" THEN [t |-> "joined", s |-> "; ", n |-> 0, d |-> v.d]
    ELSE IF v.t = "str" THEN v
    ELSE Str("<UNKNOWN>")

\* "\t".join("[key] info" for every key of the body)
validation_summary(json) ==
    [t |-> "joined", s |-> "\t", n |-> 0,
     d |-> [key \in DOMAIN json.d |-> <<"[{filed}] {info}", key, field_info(json.d[key])>>]]

\* the readable error request() gets from a failed response
error_message(json, status_code) ==
    IF json.t # "dict" THEN Str("Unknown error")
    ELSE IF "error" \in DOMAIN json.d THEN json.d["error"]
    ELSE IF "message" \in DOMAIN json.d THEN json.d["message"]
    ELSE IF status_code = 400 /\ truthy(json) THEN validation_summary(json)
    ELSE Str("Unknown error")

\* raise VxCubeApiHttpException(msg, code=..., response=...)
request_raises(response, output_file) ==
    [type |-> "VxCubeApiHttpException",
     msg |-> error_message(json_response(response, output_file), response.status_code),
     code |-> response.status_code,
     response |-> IF truthy(json_response(response, output_file))
                  THEN json_response(response, output_file)
                  ELSE response.body.text]

\* VxCubeApiRequest.request: the calls on the session, and the value returned
\* or the exception raised
request(self_headers, method, url, headers, output_file, first, second) ==
    LET sent == send_request(request_args(self_headers, method, url, headers, output_file),
                             first, second)
    IN  IF sent.out.exc # "none"
        THEN [session |-> sent.session, raised |-> TRUE, ret |-> None,
              exc |-> [type |-> sent.out.exc]]
        ELSE IF Response_ok(sent.out.resp)
        THEN [session |-> sent.session, raised |-> FALSE,
              ret |-> request_returns(sent.out.resp, output_file), exc |-> Empty]
        ELSE [session |-> sent.session, raised |-> TRUE, ret |-> None,
              exc |-> request_raises(sent.out.resp, output_file)]

\* the bodies of the responses: whether the body is JSON, what it decodes to
\* and its text
Body(valid, json, text) == [valid |-> valid, json |-> json, text |-> text]

Bodies ==
    {Body(FALSE, None, Str("")),
     Body(FALSE, None, Str("test_text")),
     Body(TRUE, None, Str("null")),
     Body(TRUE, Dict(Empty), Str("{}")),
     Body(TRUE, List(<<Str("e")>>), Str("[e]")),
     Body(TRUE, Dict([error |-> Str("test_error")]), Str("{error}")),
     Body(TRUE, Dict([message |-> Str("test_message")]), Str("{message}")),
     Body(TRUE, Dict([error |-> Str("test_error"), message |-> Str("test_message")]),
          Str("{error, message}")),
     Body(TRUE, Dict([k1 |-> Str("v1"), k2 |-> List(<<Str("v1"), Str("v2")>>),
                      k3 |-> Dict([bad |-> Str("value")])]), Str("{k1, k2, k3}"))}

\* what the transport can do with one attempt: a response with a status
\* code and a body, or an exception
Transports ==
    {Answered(response) : response \in [status_code : {200, 400, 404}, body : Bodies]}
        \cup {Raised("ConnectionError"), Raised("Timeout")}

\* the arguments of a direct call of send_request
SendArgs == [method |-> "test_arg", test_kwarg |-> "test_kwarg"]

\* the headers and the output file a call of request() can name
CallHeaders == {None, Dict([k \in {"Content-Type"} |-> Str("multipart/form-data")])}

OutputFiles == {None, Str("archive.zip")}

\* ------------------------------------------------------------------------
\* raw_api.py: VxCubeRawApi
\* ------------------------------------------------------------------------
\* str(value)
py_str(v) == IF v.t = "none" THEN "None" ELSE IF v.t = "str" THEN v.s ELSE ToString(v.n)

\* "api-key {}".format(api_key)
format_api_key(api_key) == [t |-> "format", s |-> "api-key {}", n |-> 0, d |-> <<py_str(api_key)>>]

\* variant: an unset key leaves the headers as they are
api_key_setter_skips_none(self, api_key) ==
    Merged(self,
           [api_key |-> api_key,
            headers |-> IF api_key = None THEN self["headers"]
                        ELSE Merged(self["headers"],
                                    [k \in {"Authorization"} |-> format_api_key(api_key)])])

\* the setter of VxCubeRawApi.api_key
api_key_setter(self, api_key) ==
    Merged(self,
           [api_key |-> api_key,
            headers |-> Merged(self["headers"],
                               [k \in {"Authorization"} |-> format_api_key(api_key)])])

\* a URL, as the sequence of its parts: scheme, "://", the parts of the
\* network location, then "/" and segments of the path
\* urljoin(base_url, "api-2.0/"): the last segment of the path of the base
\* gives way to the relative reference
urljoin(base, reference) ==
    LET slashes == {k \in 3..Len(base) : base[k] = "/"}
        last == IF slashes = {} THEN 0 ELSE CHOOSE k \in slashes : \A j \in slashes : j <= k
    IN  IF slashes = {} THEN base \o <<"/">> \o reference
        ELSE SubSeq(base, 1, last) \o reference

\* VxCubeRawApi(api_key, base_url)
VxCubeRawApi_init(api_key, base_url) ==
    api_key_setter([headers |-> Empty, base_url |-> urljoin(base_url, <<"api-2.0", "/">>)],
                   api_key)

\* tortilla's Wrap: the URL of the endpoint reached by the chain of parts
RECURSIVE Wrap_url(_, _)
Wrap_url(base, parts) ==
    IF parts = <<>>
    THEN IF base[Len(base)] = "/" THEN SubSeq(base, 1, Len(base) - 1) ELSE base
    ELSE Wrap_url(base, SubSeq(parts, 1, Len(parts) - 1)) \o <<"/", parts[Len(parts)]>>

BaseUrls ==
    {<<"https", "://", "vxcube.drweb.com", "/">>,
     <<"http", "://", "test">>,
     <<"https", "://", "test">>,
     <<"http", "://", "localhost", ":", "8080", "/", "cube", "/">>}

ApiKeys == {None, Str("test_key"), Str("k2")}

\* ------------------------------------------------------------------------
\* api.py: return_objects and login
\* ------------------------------------------------------------------------
\* obj(**kw): the object the constructor makes of its input
Obj(kw) == [t |-> "obj", s |-> "", n |-> 0, d |-> kw]

\* variant: the back-reference is never added
create_obj_never_adds(add_raw_api, raw_api, kw) == kw

\* create_obj of return_objects: the input the constructor is called with
create_obj(add_raw_api, raw_api, kw) ==
    IF add_raw_api THEN Merged(kw, [k \in {"_raw_api"} |-> raw_api]) ELSE kw

\* the wrapper of return_objects: the constructor calls made, in order, and
\* the value returned
return_objects(add_raw_api, raw_api, data) ==
    IF data.t = "dict"
    THEN [calls |-> <<create_obj(add_raw_api, raw_api, data.d)>>,
          ret |-> Obj(create_obj(add_raw_api, raw_api, data.d))]
    ELSE IF data.t \in {"list", "tuple"}
    THEN [calls |-> [i \in 1..Len(data.d) |-> create_obj(add_raw_api, raw_api, data.d[i].d)],
          ret |-> List([i \in 1..Len(data.d) |->
                            Obj(create_obj(add_raw_api, raw_api, data.d[i].d))])]
    ELSE [calls |-> <<>>, ret |-> None]

\* number of elements of the longest list a call answers with
MaxObjects == 2

ObjectPayloads ==
    {Dict([id |-> Num(1), test |-> Str("test")]),
     Dict([id |-> Num(2), test |-> Str("test")]),
     Dict([id |-> Num(3), _raw_api |-> Str("stale")])}

\* what a decorated method can get from the request mechanism
HydrationData ==
    ObjectPayloads
        \cup {List(xs) : xs \in UNION {[1..n -> ObjectPayloads] : n \in 0..MaxObjects}}
        \cup {[t |-> "tuple", s |-> "", n |-> 0, d |-> <<>>]}
        \cup {None, Str("test_text"), Num(1)}

\* VxCubeApi.login: answer is what the POST of the login gave
login(self, answer) ==
    IF answer.raised THEN [raised |-> answer.exc.type, self |-> self]
    ELSE IF answer.ret.t # "dict" \/ "api_key" \notin DOMAIN answer.ret.d
    THEN [raised |-> "VxCubeApiException", self |-> self]
    ELSE [raised |-> "none", self |-> api_key_setter(self, answer.ret.d["api_key"])]

LoginAnswers ==
    {[raised |-> FALSE, ret |-> Dict([api_key |-> Str("test")]), exc |-> Empty],
     [raised |-> FALSE, ret |-> Dict([login |-> Str("login")]), exc |-> Empty],
     [raised |-> FALSE, ret |-> Str("bad"), exc |-> Empty],
     [raised |-> TRUE, ret |-> None,
      exc |-> [type |-> "VxCubeApiHttpException", msg |-> Str("test_error"), code |-> 404,
               response |-> Dict([error |-> Str("test_error")])]]}

\* ------------------------------------------------------------------------
\* objects.py: the URL and the headers of the streaming connection
\* ------------------------------------------------------------------------
\* urlparse(url): the scheme, the network location and the path
urlparse(url) ==
    LET slashes == {k \in 3..Len(url) : url[k] = "/"}
        first == IF slashes = {} THEN Len(url) + 1
                 ELSE CHOOSE k \in slashes : \A j \in slashes : k <= j
    IN  [scheme |-> url[1], netloc |-> SubSeq(url, 3, first - 1),
         path |-> SubSeq(url, first, Len(url))]

\* url_parts.geturl()
geturl(url_parts) == <<url_parts.scheme, "://">> \o url_parts.netloc \o url_parts.path

\* variant: the stream is always opened without TLS
ws_scheme_always_ws(scheme) == "ws"

\* the scheme of the streaming connection
ws_scheme(scheme) == IF scheme = "https" THEN "wss" ELSE "ws"

\* the endpoint of the progress stream, as ordinary requests address it
progress_url(raw_api) == Wrap_url(raw_api["base_url"], <<"ws", "progress">>)

\* ws.connect(url_parts.geturl(), header=...): the arguments of the call
ws_connect_args(raw_api) ==
    [url |-> geturl([urlparse(progress_url(raw_api)) EXCEPT !.scheme = ws_scheme(@)]),
     header |-> raw_api["headers"]]

\* no VxCubeRawApi was made, no call was made on the request layer
NoApi == [api_key |-> None, headers |-> Empty, base_url |-> <<>>]

NoLast == [op |-> "none"]

VARIABLES
    analysis,   \* the local Analysis object
    pc,         \* position of the generator
    fin,        \* index of the next statement of the finally block
    pending,    \* exception pending while the finally block runs
    log,        \* calls made on the WebSocket and GETs of the Analysis, in order
    received,   \* messages the loop has read
    events,     \* events produced to the caller
    outcome,    \* how the generator ended
    lastcall,   \* the last method called on the object graph and its payload
    ops,        \* number of direct calls made
    subs,       \* number of subscriptions made
    reiterated, \* the caller has iterated the generator again after it ended
    call,       \* utils.py: the arguments of the iterator/all_items call
    it,         \* utils.py: the generator made by iterator(...)
    al,         \* utils.py: the activation of all_items(...)
    cureit,     \* objects.py: the CureIt(**kwargs) call and the object it made
    api,        \* raw_api.py: the VxCubeRawApi object (key, headers, base URL)
    apicall     \* the last call made on the request layer and what it gave

\* the variables of the Analysis and of its subscription
objvars == <<analysis, pc, fin, pending, log, received, events, outcome, lastcall, ops, subs,
             reiterated>>

\* the variables of the pagination helpers
utilvars == <<call, it, al>>

\* the variables of the CureIt construction
curevars == <<cureit>>

\* the variables of the request layer
apivars == <<api, apicall>>

vars == <<objvars, utilvars, curevars, apivars>>

subvars == <<pc, fin, pending, log, received, events, outcome, subs>>

\* the method, the index of the Task it was called on (0: the Analysis), the
\* payload it merged (Empty when no payload was obtained) and the Analysis as
\* it was when the method was called
Called(op, i, kwargs) == [op |-> op, i |-> i, kwargs |-> kwargs, before |-> analysis]

Init ==
    /\ analysis \in {Analysis_init(p) : p \in InitPayloads}
    /\ pc = "none"
    /\ fin = 1
    /\ pending = "none"
    /\ log = <<>>
    /\ received = <<>>
    /\ events = <<>>
    /\ outcome = "none"
    /\ lastcall = Called("Analysis", 0, Empty)
    /\ ops = 0
    /\ subs = 0
    /\ reiterated = FALSE
    /\ call = NoCall /\ it = NoGen /\ al = NoAll
    /\ cureit = NoCureIt
    /\ api = NoApi /\ apicall = NoLast

\* the caller makes direct calls on an Analysis it does not subscribe to
Idle == pc = "none" /\ subs = 0

\* Task.update called on the i-th Task
TaskUpdate(i, kwargs) ==
    /\ Idle /\ ops < MaxOps
    /\ analysis' = [analysis EXCEPT !["tasks"][i] = Task_update(@, kwargs)]
    /\ lastcall' = Called("Task.update", i, kwargs)
    /\ ops' = ops + 1
    /\ UNCHANGED subvars
    /\ UNCHANGED <<reiterated, utilvars, curevars, apivars>>

\* variant: any finished Task can be restarted
Task_can_restart_any_finished(task) == Task_is_finished(task)

\* Task.restart: whether the restart request is made at all
Task_can_restart(task) == Task_is_failed(task) \/ Task_is_deleted(task)

\* Task.restart: the value returned, the number of restart requests posted and
\* the Task afterwards; data is the answer of the restart request
Task_restart(self, data) ==
    IF ~ Task_can_restart(self)
    THEN [ret |-> FALSE, posts |-> 0, self |-> self]
    ELSE [ret |-> TRUE, posts |-> 1, self |-> Task_update(self, data)]

\* Task.restart on the i-th Task; data is the answer of the restart request
TaskRestart(i, data) ==
    /\ Idle /\ ops < MaxOps
    /\ LET r == Task_restart(analysis["tasks"][i], data)
       IN  /\ analysis' = [analysis EXCEPT !["tasks"][i] = r.self]
           /\ lastcall' = Merged(Called("Task.restart", i, IF r.posts = 1 THEN data ELSE Empty),
                                 [ret |-> r.ret, posts |-> r.posts])
    /\ ops' = ops + 1
    /\ UNCHANGED subvars
    /\ UNCHANGED <<reiterated, utilvars, curevars, apivars>>

\* Analysis.update
AnalysisUpdate(kwargs) ==
    /\ Idle /\ ops < MaxOps
    /\ analysis' = Analysis_update(analysis, kwargs)
    /\ lastcall' = Called("Analysis.update", 0, kwargs)
    /\ ops' = ops + 1
    /\ UNCHANGED subvars
    /\ UNCHANGED <<reiterated, utilvars, curevars, apivars>>

\* Analysis.restart: the Tasks of the answer first, then the rest of it
Analysis_restart(self, data) ==
    Analysis_update([self EXCEPT !["tasks"] = update_tasks(self["tasks"], PoppedTasks(data))],
                    WithoutTasks(data))

AnalysisRestart(data) ==
    /\ Idle /\ ops < MaxOps
    /\ analysis' = Analysis_restart(analysis, data)
    /\ lastcall' = Called("Analysis.restart", 0, data)
    /\ ops' = ops + 1
    /\ UNCHANGED subvars
    /\ UNCHANGED <<reiterated, utilvars, curevars, apivars>>

\* Analysis.refresh: a GET of the Analysis, merged by update
Analysis_refresh(self, data) == Analysis_update(self, data)

AnalysisRefresh(data) ==
    /\ Idle /\ ops < MaxOps
    /\ analysis' = Analysis_refresh(analysis, data)
    /\ lastcall' = Called("Analysis.refresh", 0, data)
    /\ ops' = ops + 1
    /\ UNCHANGED subvars
    /\ UNCHANGED <<reiterated, utilvars, curevars, apivars>>

\* the caller calls subscribe_progress() on the Analysis it has fetched: a new
\* generator, nothing has run
Subscribe ==
    /\ pc \in {"none", "done"} /\ subs < MaxSubs /\ ops = 0
    /\ pc' = "created"
    /\ fin' = 1
    /\ pending' = "none"
    /\ log' = <<>>
    /\ received' = <<>>
    /\ events' = <<>>
    /\ outcome' = "none"
    /\ lastcall' = Called("Analysis.subscribe_progress", 0, Empty)
    /\ subs' = subs + 1
    /\ UNCHANGED <<analysis, ops>>
    /\ reiterated' = FALSE
    /\ UNCHANGED <<utilvars, curevars, apivars>>

\* first next(): the finished-check, then a WebSocket object is created
Start ==
    /\ pc = "created"
    /\ IF Analysis_is_finished(analysis)
       THEN /\ pc' = "done"
            /\ outcome' = "finished"
       ELSE /\ pc' = "connect"
            /\ UNCHANGED outcome
    /\ UNCHANGED <<analysis, fin, pending, log, received, events, lastcall, ops, subs>>
    /\ UNCHANGED <<reiterated, utilvars, curevars, apivars>>

\* ws.connect(url, header=...)
Connect(res) ==
    /\ pc = "connect"
    /\ log' = Append(log, Call("connect", None, res))
    /\ pc' = after_connect(res).pc
    /\ pending' = after_connect(res).pending
    /\ UNCHANGED <<analysis, fin, received, events, outcome, lastcall, ops, subs>>
    /\ UNCHANGED <<reiterated, utilvars, curevars, apivars>>

\* ws.send(json.dumps({"analysis_id": self.id}))
Send(res) ==
    /\ pc = "send"
    /\ log' = Append(log, Call("send", [analysis_id |-> analysis["id"]], res))
    /\ pc' = after_send(res).pc
    /\ pending' = after_send(res).pending
    /\ UNCHANGED <<analysis, fin, received, events, outcome, lastcall, ops, subs>>
    /\ UNCHANGED <<reiterated, utilvars, curevars, apivars>>

\* one pass of the receive loop up to the yield or to the end of the loop
Recv(res, msg) ==
    /\ pc = "recv"
    /\ res = "msg" /\ json_loads_ok(msg) => Len(events) < MaxEvents
    /\ log' = Append(log, Call("recv", None, res))
    /\ received' = IF res = "msg" THEN Append(received, msg) ELSE received
    /\ pc' = after_recv(res, msg).pc
    /\ pending' = after_recv(res, msg).pending
    /\ events' = IF after_recv(res, msg).pc = "yielded"
                 THEN Append(events, json_loads(msg)) ELSE events
    /\ analysis' = IF res = "msg" THEN loop_body(analysis, msg) ELSE analysis
    /\ UNCHANGED <<fin, outcome, lastcall, ops, subs>>
    /\ UNCHANGED <<reiterated, utilvars, curevars, apivars>>

\* the caller asks for the next event
Resume ==
    /\ pc = "yielded"
    /\ pc' = "recv"
    /\ UNCHANGED <<analysis, fin, pending, log, received, events, outcome, lastcall, ops, subs>>
    /\ UNCHANGED <<reiterated, utilvars, curevars, apivars>>

\* the caller abandons the sequence: the generator is closed at the yield
Abandon ==
    /\ pc = "yielded"
    /\ pc' = on_close.pc
    /\ pending' = on_close.pending
    /\ UNCHANGED <<analysis, fin, log, received, events, outcome, lastcall, ops, subs>>
    /\ UNCHANGED <<reiterated, utilvars, curevars, apivars>>

\* leaving statement number fin of the finally block: an exception it raised
\* ends the block and is what the caller gets instead of the pending one
LeaveFinally(raised) ==
    IF raised # "none"
    THEN /\ pc' = "done"
         /\ pending' = pending
         /\ outcome' = Outcome(raised)
         /\ fin' = fin
    ELSE IF fin >= Len(Finally)
    THEN /\ pc' = "done"
         /\ pending' = pending
         /\ outcome' = Outcome(pending)
         /\ fin' = fin
    ELSE /\ pc' = "finally"
         /\ pending' = pending
         /\ outcome' = outcome
         /\ fin' = fin + 1

\* ws.close() in the finally block (close() of the WebSocket does not raise)
WsClose ==
    /\ pc = "finally" /\ fin <= Len(Finally) /\ Finally[fin] = "close"
    /\ log' = Append(log, Call("close", None, "ok"))
    /\ LeaveFinally("none")
    /\ UNCHANGED <<analysis, received, events, lastcall, ops, subs>>
    /\ UNCHANGED <<reiterated, utilvars, curevars, apivars>>

\* self.refresh() in the finally block: the GET answers with data
Reconcile(data) ==
    /\ pc = "finally" /\ fin <= Len(Finally) /\ Finally[fin] = "refresh"
    /\ log' = Append(log, Call("get", analysis["id"], "ok"))
    /\ analysis' = Analysis_refresh(analysis, data)
    /\ lastcall' = Called("Analysis.refresh", 0, data)
    /\ LeaveFinally("none")
    /\ UNCHANGED <<received, events, ops, subs>>
    /\ UNCHANGED <<reiterated, utilvars, curevars, apivars>>

\* self.refresh() in the finally block: the GET fails with a service error
ReconcileFails ==
    /\ pc = "finally" /\ fin <= Len(Finally) /\ Finally[fin] = "refresh"
    /\ log' = Append(log, Call("get", analysis["id"], "service"))
    /\ lastcall' = Called("Analysis.refresh", 0, Empty)
    /\ LeaveFinally("service")
    /\ UNCHANGED <<analysis, received, events, ops, subs>>
    /\ UNCHANGED <<reiterated, utilvars, curevars, apivars>>

\* the caller iterates the generator again after it has ended
IterateAgain ==
    /\ pc = "done"
    /\ pc' = after_done.pc
    /\ reiterated' = TRUE
    /\ UNCHANGED <<analysis, fin, pending, log, received, events, outcome, lastcall, ops, subs>>
    /\ UNCHANGED <<utilvars, curevars, apivars>>

TaskIndices == 1..Len(analysis["tasks"])

ConnResults == {"ok", "closed", "error"}

Next ==
    \/ \E i \in TaskIndices, kwargs \in TaskBodies : TaskUpdate(i, kwargs)
    \/ \E i \in TaskIndices, data \in TaskBodies : TaskRestart(i, data)
    \/ \E kwargs \in AnalysisPayloads : AnalysisUpdate(kwargs)
    \/ \E data \in AnalysisPayloads : AnalysisRestart(data)
    \/ \E data \in AnalysisPayloads : AnalysisRefresh(data)
    \/ Subscribe
    \/ Start
    \/ \E res \in ConnResults : Connect(res)
    \/ \E res \in ConnResults : Send(res)
    \/ \E msg \in Messages : Recv("msg", msg)
    \/ \E res \in {"end", "closed", "error"} : Recv(res, EmptyMsg)
    \/ Resume
    \/ Abandon
    \/ WsClose
    \/ \E data \in AnalysisPayloads : Reconcile(data)
    \/ ReconcileFails
    \/ IterateAgain

Spec == Init /\ [][Next]_vars

\* ------------------------------------------------------------------------
\* The pagination helpers: one call of iterator and one call of all_items
\* with the same arguments, against the same page-fetch function
\* ------------------------------------------------------------------------
\* no Analysis is subscribed to, no CureIt is made
ObjQuiet ==
    /\ analysis = Analysis_init([id |-> Num(1), _raw_api |-> RawApi, tasks |-> <<>>])
    /\ pc = "none" /\ fin = 1 /\ pending = "none"
    /\ log = <<>> /\ received = <<>> /\ events = <<>>
    /\ outcome = "none"
    /\ lastcall = [op |-> "none", i |-> 0, kwargs |-> Empty, before |-> Empty]
    /\ ops = 0 /\ subs = 0 /\ reiterated = FALSE

PageInit ==
    /\ ObjQuiet
    /\ call \in Calls
    /\ it = iterator_created
    /\ al = all_items_called(call)
    /\ cureit = NoCureIt
    /\ api = NoApi /\ apicall = NoLast

\* the caller of iterator asks for the next item
IteratorNext ==
    /\ it.pc \in {"created", "yielded"}
    /\ iterator_fetches(it, call) => Len(it.reqs) < MaxPages
    /\ it' = iterator_next(it, call)
    /\ UNCHANGED <<call, al>>
    /\ UNCHANGED <<objvars, curevars, apivars>>

\* all_items goes once through its loop
AllItemsPass ==
    /\ al.pc = "called"
    /\ Len(al.reqs) < MaxPages
    /\ al' = all_items_pass(al, call)
    /\ UNCHANGED <<call, it>>
    /\ UNCHANGED <<objvars, curevars, apivars>>

PageNext ==
    \/ IteratorNext
    \/ AllItemsPass

PageSpec == PageInit /\ [][PageNext]_vars

\* ------------------------------------------------------------------------
\* CureIt: one construction and the retries made on the object
\* ------------------------------------------------------------------------
\* number of retry requests made on one CureIt
MaxRetries == 1

CureInit ==
    /\ ObjQuiet
    /\ call = NoCall /\ it = NoGen /\ al = NoAll
    /\ cureit \in {[NoCureIt EXCEPT !.pc = "call", !.kwargs = kwargs] : kwargs \in CureItPayloads}
    /\ api = NoApi /\ apicall = NoLast

\* CureIt(**kwargs)
CureItConstruct ==
    /\ cureit.pc = "call"
    /\ cureit' = [cureit EXCEPT
                    !.pc = IF CureIt_init(cureit.kwargs).raised = "none" THEN "made" ELSE "raised",
                    !.raised = CureIt_init(cureit.kwargs).raised,
                    !.obj = CureIt_init(cureit.kwargs).obj]
    /\ UNCHANGED <<objvars, utilvars, apivars>>

\* CureIt.retry(): a PUT on the resource the object is bound to, answered by data
CureItRetry(data) ==
    /\ cureit.pc = "made"
    /\ Len(cureit.net) < MaxRetries
    /\ cureit' = [cureit EXCEPT
                    !.net = Append(@, Call("put", CureIt_bound(cureit.obj), "ok")),
                    !.obj = CureIt_retry(cureit.obj, data)]
    /\ UNCHANGED <<objvars, utilvars, apivars>>

CureNext ==
    \/ CureItConstruct
    \/ \E data \in RetryAnswers : CureItRetry(data)

CureSpec == CureInit /\ [][CureNext]_vars

\* ------------------------------------------------------------------------
\* The request layer: one VxCubeRawApi and the calls made through it
\* ------------------------------------------------------------------------
ApiInit ==
    /\ ObjQuiet
    /\ call = NoCall /\ it = NoGen /\ al = NoAll
    /\ cureit = NoCureIt
    /\ api \in {VxCubeRawApi_init(api_key, base_url) : api_key \in ApiKeys, base_url \in BaseUrls}
    /\ apicall = NoLast

\* raw_api.api_key = api_key
SetApiKey(api_key) ==
    /\ api' = api_key_setter(api, api_key)
    /\ apicall' = [op |-> "api_key", api_key |-> api_key]
    /\ UNCHANGED <<objvars, utilvars, curevars>>

\* VxCubeApi.login(...): answer is what the POST of the login gave
Login(answer) ==
    /\ api' = login(api, answer).self
    /\ apicall' = [op |-> "login", answer |-> answer, raised |-> login(api, answer).raised]
    /\ UNCHANGED <<objvars, utilvars, curevars>>

\* VxCubeApiRequest.send_request(*args, **kwargs)
SendRequest(first, second) ==
    /\ apicall' = [op |-> "send_request", args |-> SendArgs, first |-> first, second |-> second,
                   did |-> send_request(SendArgs, first, second)]
    /\ UNCHANGED api
    /\ UNCHANGED <<objvars, utilvars, curevars>>

\* VxCubeApiRequest.request(method, url, headers=..., output_file=...)
Request(headers, output_file, first, second) ==
    /\ apicall' = [op |-> "request", headers |-> headers, output_file |-> output_file,
                   first |-> first, second |-> second,
                   did |-> request(api["headers"], "get", Wrap_url(api["base_url"], <<"tasks">>),
                                   headers, output_file, first, second)]
    /\ UNCHANGED api
    /\ UNCHANGED <<objvars, utilvars, curevars>>

\* a method decorated with return_objects(obj, add_raw_api) got data
ReturnObjects(add_raw_api, data) ==
    /\ apicall' = [op |-> "return_objects", add_raw_api |-> add_raw_api, data |-> data,
                   did |-> return_objects(add_raw_api, RawApi, data)]
    /\ UNCHANGED api
    /\ UNCHANGED <<objvars, utilvars, curevars>>

\* subscribe_progress of an Analysis of this VxCubeRawApi reaches ws.connect
WsConnect ==
    /\ apicall' = [op |-> "ws.connect", did |-> ws_connect_args(api)]
    /\ UNCHANGED api
    /\ UNCHANGED <<objvars, utilvars, curevars>>

ApiNext ==
    \/ \E api_key \in ApiKeys : SetApiKey(api_key)
    \/ \E answer \in LoginAnswers : Login(answer)
    \/ \E first \in Transports :
          \E second \in (IF first.exc = "ConnectionError" THEN Transports ELSE {first}) :
              SendRequest(first, second)
    \/ \E headers \in CallHeaders, output_file \in OutputFiles, first \in Transports :
          \E second \in (IF first.exc = "ConnectionError" THEN Transports ELSE {first}) :
              Request(headers, output_file, first, second)
    \/ \E add_raw_api \in BOOLEAN, data \in HydrationData : ReturnObjects(add_raw_api, data)
    \/ WsConnect

ApiSpec == ApiInit /\ [][ApiNext]_vars

\* ------------------------------------------------------------------------
\* Vocabulary of the properties
\* ------------------------------------------------------------------------
Tasks == analysis["tasks"]

\* number of calls of one operation in the log
Count(op) == Cardinality({i \in 1..Len(log) : log[i].op = op})

\* the connection was closed exactly once and then the Analysis was fetched
\* exactly once, and these are the last two calls made
TornDown ==
    /\ Count("close") = 1
    /\ Count("get") = 1
    /\ Len(log) >= 2
    /\ log[Len(log) - 1].op = "close"
    /\ log[Len(log)].op = "get"

\* the answer of the fetch, when it succeeded, has been merged
Reconciled ==
    log[Len(log)].res = "ok" =>
        /\ lastcall.op = "Analysis.refresh"
        /\ analysis = Analysis_update(lastcall.before, lastcall.kwargs)

\* the send or a receive met the peer-closed condition
PeerClosed ==
    \E i \in 1..Len(log) : log[i].op \in {"send", "recv"} /\ log[i].res = "closed"

\* every Task has a terminal status
AllTerminal(a) ==
    \A i \in 1..Len(a["tasks"]) :
        a["tasks"][i]["status"] \in {Str("successful"), Str("failed"), Str("deleted")}

TaskIds(a) == [i \in 1..Len(a["tasks"]) |-> a["tasks"][i]["id"]]

\* the payloads that the last call addressed to the i-th Task
TaskKwargs(i) ==
    IF lastcall.op \in {"Task.update", "Task.restart"}
    THEN IF lastcall.i = i THEN {lastcall.kwargs} ELSE {}
    ELSE IF lastcall.op \in {"Analysis.update", "Analysis.restart", "Analysis.refresh"}
    THEN {PoppedTasks(lastcall.kwargs)[k] : k \in
            {k \in 1..Len(PoppedTasks(lastcall.kwargs)) :
                PoppedTasks(lastcall.kwargs)[k]["id"] = lastcall.before["tasks"][i]["id"]}}
    ELSE {}

\* the last event of the sequence evs that names the Task identity id
LastEventFor(evs, id) ==
    evs[CHOOSE k \in 1..Len(evs) :
            /\ evs[k]["task_id"] = id
            /\ \A j \in (k + 1)..Len(evs) : evs[j]["task_id"] # id]

\* the messages read before the first one that stops the loop
Before(msgs, Stops(_)) ==
    LET stops == {k \in 1..Len(msgs) : Stops(msgs[k])}
        first == IF stops = {} THEN Len(msgs) + 1
                 ELSE CHOOSE k \in stops : \A j \in stops : k <= j
    IN  SubSeq(msgs, 1, first - 1)

Parsed(msgs) == [k \in 1..Len(msgs) |-> json_loads(msgs[k])]

\* ------------------------------------------------------------------------
\* C1: once the finished-check has passed, however the receive loop ends, the
\* generator returns to its caller only after the connection was closed
\* exactly once and then exactly one fetch of the Analysis was made, whose
\* answer is merged into the local Analysis.
\* ------------------------------------------------------------------------
C1_TeardownAlways ==
    (pc = "done" /\ outcome # "finished") => (TornDown /\ Reconciled)

\* the loop raised after an event had been produced; teardown ran and the
\* fetched id 42 is in the Analysis
C1_Witness ==
    /\ pc = "done" /\ outcome = "error" /\ Len(events) >= 1
    /\ TornDown /\ log[Len(log)].res = "ok"
    /\ lastcall.kwargs = [id |-> Num(42)]
    /\ analysis["id"] = Num(42) /\ lastcall.before["id"] = Num(1)

\* ------------------------------------------------------------------------
\* C2: when the caller abandons the sequence after at least one event, the
\* generator goes through the teardown (close, then fetch and merge) and reads
\* no further message.
\* ------------------------------------------------------------------------
C2_AbandonTearsDown ==
    pending = "exit" =>
        /\ pc \in {"finally", "done"}
        /\ Len(events) >= 1
        /\ Count("recv") = Len(events)
        /\ pc = "done" => (TornDown /\ Reconciled)

C2_Witness ==
    /\ pending = "exit" /\ pc = "done" /\ outcome = "exit"
    /\ Len(events) = 1 /\ Count("recv") = 1
    /\ TornDown /\ log[Len(log)].res = "ok"
    /\ analysis = Analysis_update(lastcall.before, lastcall.kwargs)
    /\ analysis # lastcall.before

\* ------------------------------------------------------------------------
\* C3: a peer-closed condition raised by the send or by a receive never
\* reaches the caller: no exception is pending, no event is produced after
\* it, and the generator ends normally after the teardown (unless the fetch
\* of the teardown itself fails).
\* ------------------------------------------------------------------------
C3_PeerClosedSwallowed ==
    /\ [](/\ outcome # "closed"
          /\ pending # "closed"
          /\ PeerClosed =>
                /\ pc \in {"finally", "done"}
                /\ pending = "none"
                /\ pc = "done" => (TornDown /\ outcome \in {"StopIteration", "service"}))
    /\ [][(PeerClosed /\ pc # "done") => events' = events]_vars

\* the case of the test: the send meets the closed connection
C3_Witness ==
    /\ pc = "done" /\ outcome = "StopIteration"
    /\ \E i \in 1..Len(log) : log[i].op = "send" /\ log[i].res = "closed"
    /\ TornDown /\ events = <<>>

\* ------------------------------------------------------------------------
\* C4: subscribing to an Analysis whose Tasks are all terminal fails with
\* 'All tasks finished' at once: no connect, send, close or fetch is made
\* and the Analysis is left as it was.
\* ------------------------------------------------------------------------
C4_FinishedFailsLocally ==
    /\ [](outcome = "finished" => (log = <<>> /\ received = <<>> /\ events = <<>>))
    /\ [][(pc = "created" /\ AllTerminal(analysis)) =>
            (pc' = "done" /\ outcome' = "finished" /\ log' = <<>> /\ analysis' = analysis)]_vars

C4_Witness ==
    /\ outcome = "finished" /\ pc = "done" /\ log = <<>>
    /\ Len(Tasks) = 2
    /\ Tasks[1]["status"] = Str("successful") /\ Tasks[2]["status"] = Str("failed")

\* ------------------------------------------------------------------------
\* C5: after an update of a Task whose payload carries a status different
\* from the Task's status, each of message, progress, verdict and rules is the
\* value of that payload when it supplies one and None otherwise; for
\* Task.update, Task.restart, Analysis.update, Analysis.restart, refresh and
\* the reconciliation fetch.
\* ------------------------------------------------------------------------
C5_StatusTransitionWipe ==
    \A i \in 1..Len(Tasks) : \A kw \in TaskKwargs(i) :
        ("status" \in DOMAIN kw /\ kw["status"] # lastcall.before["tasks"][i]["status"]) =>
            \A sl \in Task_variable_slots :
                /\ sl \in DOMAIN Tasks[i]
                /\ Tasks[i][sl] = IF sl \in DOMAIN kw THEN kw[sl] ELSE None

\* the example of the specification: progress and message of a processing
\* Task are wiped by {status: successful, verdict: guilty}
C5_Witness ==
    /\ lastcall.op = "Task.update" /\ lastcall.i = 1
    /\ lastcall.kwargs = [status |-> Str("successful"), verdict |-> Str("guilty")]
    /\ lastcall.before["tasks"][1]["status"] = Str("processing")
    /\ lastcall.before["tasks"][1]["progress"] = Num(35)
    /\ lastcall.before["tasks"][1]["message"] = Str("m")
    /\ Tasks[1]["progress"] = None /\ Tasks[1]["message"] = None
    /\ Tasks[1]["verdict"] = Str("guilty") /\ Tasks[1]["rules"] = None

\* ------------------------------------------------------------------------
\* C6: when the sequence has been consumed to exhaustion and the events named
\* only known Tasks, then before the reconciliation each Task named by an
\* event has the message and progress of the last event that named it.
\* ------------------------------------------------------------------------
C6_TasksReflectLastEvent ==
    (/\ pc = "finally" /\ pending = "none"
     /\ \A k \in 1..Len(events) : \E i \in 1..Len(Tasks) : Tasks[i]["id"] = events[k]["task_id"]) =>
        \A i \in 1..Len(Tasks) :
            (\E k \in 1..Len(events) : events[k]["task_id"] = Tasks[i]["id"]) =>
                LET last == LastEventFor(events, Tasks[i]["id"]) IN
                /\ Tasks[i]["progress"] = last["progress"]
                /\ "message" \in DOMAIN last => Tasks[i]["message"] = last["message"]

\* ------------------------------------------------------------------------
\* C7: handling one progress event changes no Task other than the one the
\* event names; an event naming an unknown Task changes nothing, raises
\* nothing, is produced to the caller and the subscription goes on.
\* ------------------------------------------------------------------------
C7_EventFrame ==
    [][(pc = "recv" /\ Len(received') > Len(received)
        /\ json_loads_ok(received'[Len(received')])) =>
        LET ev == json_loads(received'[Len(received')]) IN
        /\ Len(analysis'["tasks"]) = Len(Tasks)
        /\ \A i \in 1..Len(Tasks) :
              Tasks[i]["id"] # ev["task_id"] => analysis'["tasks"][i] = Tasks[i]
        /\ WithoutTasks(analysis') = WithoutTasks(analysis)
        /\ (\A i \in 1..Len(Tasks) : Tasks[i]["id"] # ev["task_id"]) =>
              /\ analysis' = analysis
              /\ pc' = "yielded" /\ pending' = "none"
              /\ events' = Append(events, ev)]_vars

\* an event for the unknown Task was produced, then one for Task 1, and the
\* loop is reading on
C7_Witness ==
    /\ pc = "recv" /\ Len(events) = 2 /\ Len(Tasks) = 2
    /\ events[1]["task_id"] = Num(UnknownTaskId)
    /\ events[2]["task_id"] = Tasks[1]["id"]
    /\ analysis = lastcall.before

\* ------------------------------------------------------------------------
\* C8: no step changes the sequence of Task identities of the Analysis: an
\* unknown Task of a payload is not appended, a known one is updated in place,
\* none is removed, replaced or reordered.
\* ------------------------------------------------------------------------
C8_TaskIdentitiesFixed ==
    [][TaskIds(analysis') = TaskIds(analysis)]_vars

\* a payload naming the unknown Task 9 before Task 1 was merged
C8_Witness ==
    /\ lastcall.op \in {"Analysis.update", "Analysis.restart", "Analysis.refresh"}
    /\ Len(PoppedTasks(lastcall.kwargs)) = 2
    /\ PoppedTasks(lastcall.kwargs)[1]["id"] = Num(UnknownTaskId)
    /\ TaskIds(analysis) = <<Num(1), Num(2)>>
    /\ Tasks[1]["progress"] = Num(65)
    /\ analysis # lastcall.before

\* ------------------------------------------------------------------------
\* C9: the connection is opened first, then exactly one message carrying the
\* analysis id is sent, and only after that send is anything received; no
\* second message is sent.
\* ------------------------------------------------------------------------
C9_ConnectSendReceive ==
    /\ Count("connect") <= 1 /\ Count("send") <= 1
    /\ \A i \in 1..Len(log) :
          /\ log[i].op = "connect" => i = 1
          /\ log[i].op = "send" =>
                /\ i = 2 /\ log[1].op = "connect" /\ log[1].res = "ok"
                /\ pc # "done" => log[i].arg = [analysis_id |-> analysis["id"]]
          /\ log[i].op = "recv" =>
                /\ i >= 3 /\ log[2].op = "send" /\ log[2].res = "ok"

C9_Witness ==
    /\ pc = "yielded" /\ Len(events) = 2
    /\ Len(log) = 4 /\ log[1].op = "connect" /\ log[2].op = "send"
    /\ log[2].arg = [analysis_id |-> Num(1)]
    /\ log[3].op = "recv" /\ log[4].op = "recv"

\* ------------------------------------------------------------------------
\* C10 as stated: the events produced are the non-empty messages received
\* before the first empty one, one event per message, in order.
\* ------------------------------------------------------------------------
C10_Original ==
    /\ Len(events) = Len(Before(received, falsy))
    /\ events = Parsed(Before(received, falsy))

\* a message that ends the loop: an empty one, or one that is not valid JSON
StopsLoop(msg) == falsy(msg) \/ ~ json_loads_ok(msg)

\* C10 as amended: the events produced are the parsed non-empty messages
\* received before the first message that is empty or is not valid JSON, one
\* event per message, in order; that message stops the loop (nothing is
\* received after it) and is not produced.
C10_EventsAreMessagesBeforeStop ==
    /\ events = Parsed(Before(received, StopsLoop))
    /\ \A k \in 1..(Len(received) - 1) : ~ StopsLoop(received[k])

\* two events were produced, then the empty message ended the loop
C10_Witness ==
    /\ pc = "done" /\ Len(received) = 3 /\ Len(events) = 2
    /\ falsy(received[3])
    /\ events[1] = json_loads(received[1]) /\ events[2] = json_loads(received[2])
    /\ events[1] # events[2]

\* ------------------------------------------------------------------------
\* C11: a progress sequence that has ended is not restartable: from then on
\* the same generator produces no event, opens no connection, sends nothing,
\* reads nothing and makes no further fetch, whatever the caller does with
\* it; the only step that leads to new events is a new call of
\* subscribe_progress, which makes a new generator.
\* ------------------------------------------------------------------------
C11_NotRestartable ==
    [][pc = "done" =>
        \/ /\ pc' = "done"
           /\ log' = log /\ events' = events /\ received' = received
           /\ analysis' = analysis /\ outcome' = outcome /\ subs' = subs
        \/ /\ pc' = "created" /\ subs' = subs + 1
           /\ log' = <<>> /\ events' = <<>>]_vars

\* the sequence produced an event, was exhausted and torn down, and the
\* caller has iterated it again: still one connect, one close, one fetch
C11_Witness ==
    /\ reiterated /\ pc = "done" /\ outcome = "StopIteration"
    /\ Len(events) = 1 /\ TornDown
    /\ Count("connect") = 1 /\ Count("send") = 1

\* ------------------------------------------------------------------------
\* C12: Analysis.is_finished is true exactly when every Task has a terminal
\* status (successful, failed or deleted), Analysis.is_processing is its
\* negation, and for every Task is_processing is the negation of is_finished,
\* which is true exactly for the terminal statuses.
\* ------------------------------------------------------------------------
C12_FinishedIffAllTerminal ==
    /\ Analysis_is_finished(analysis) <=> AllTerminal(analysis)
    /\ Analysis_is_processing(analysis) <=> ~ AllTerminal(analysis)
    /\ \A i \in 1..Len(Tasks) :
          /\ Task_is_finished(Tasks[i]) <=>
                Tasks[i]["status"] \in {Str("successful"), Str("failed"), Str("deleted")}
          /\ Task_is_processing(Tasks[i]) <=>
                Tasks[i]["status"] \in {Str("in queue"), Str("processing")}

\* a failed Task and a Task that an update has put back in the queue: the
\* Analysis is processing again
C12_Witness ==
    /\ Len(Tasks) = 2
    /\ Tasks[1]["status"] = Str("failed") /\ Tasks[2]["status"] = Str("in queue")
    /\ lastcall.op = "Task.update" /\ lastcall.i = 2
    /\ Analysis_is_finished(lastcall.before)
    /\ Analysis_is_processing(analysis) /\ ~ Analysis_is_finished(analysis)

\* ------------------------------------------------------------------------
\* C13: for an Analysis with at least one Task, total_progress is the sum
\* over the Tasks of 100 for a terminal Task and of the Task's progress
\* otherwise, divided by the number of Tasks.
\* ------------------------------------------------------------------------
C13_TotalProgressIsMean ==
    Len(Tasks) >= 1 =>
        \A division \in Divisions :
            LET total == Sum([i \in 1..Len(Tasks) |->
                                IF Tasks[i]["status"] \in {Str("in queue"), Str("processing")}
                                THEN Tasks[i]["progress"].n ELSE 100])
            IN  Analysis_total_progress(analysis, division) =
                    [err |-> "none", whole |-> total \div Len(Tasks), rest |-> total % Len(Tasks)]

\* ------------------------------------------------------------------------
\* Vocabulary of the pagination properties
\* ------------------------------------------------------------------------
\* the pages one after the other
RECURSIVE Flatten(_)
Flatten(pages) == IF pages = <<>> THEN <<>> ELSE Head(pages) \o Flatten(Tail(pages))

IsPrefix(a, b) == Len(a) <= Len(b) /\ SubSeq(b, 1, Len(a)) = a

\* the items the generator has produced are the pages it has finished and
\* the part of the current page it has gone through
Flattened(g) ==
    IF g.pages = <<>> THEN g.out = <<>>
    ELSE g.out = Flatten(SubSeq(g.pages, 1, Len(g.pages) - 1)) \o SubSeq(g.items, 1, g.i)

\* range(n) as a list
Range(n) == [i \in 1..n |-> Num(i - 1)]

\* the page-fetch function serves the slices asked for, in the shape that the
\* item_key of the call expects
ServesSlices(c) ==
    /\ c.func.width = "asked"
    /\ truthy(c.item_key) <=> c.func.shape = "envelope"

\* ------------------------------------------------------------------------
\* C14 as stated, for a page size of at least one: the iterator makes another
\* page request after a page if and only if that page had exactly
\* count_per_request items.
\* ------------------------------------------------------------------------
C14_Original ==
    call.count_per_request >= 1 =>
        /\ \A j \in 1..(Len(it.pages) - 1) : Len(it.pages[j]) = call.count_per_request
        /\ it.pc = "done" => Len(it.pages[Len(it.pages)]) # call.count_per_request

\* C14 as amended: the iterator makes another page request after a page if
\* and only if that page was not empty and had at least count_per_request
\* items; a page that is empty or strictly shorter than count_per_request is
\* flattened into the output and ends the sequence: every page got one request
\* and none follows it.
C14_NextPageIffNotShort ==
    /\ \A j \in 1..(Len(it.pages) - 1) :
          Len(it.pages[j]) > 0 /\ Len(it.pages[j]) >= call.count_per_request
    /\ it.pc = "done" =>
          /\ \/ Len(it.pages[Len(it.pages)]) = 0
             \/ Len(it.pages[Len(it.pages)]) < call.count_per_request
          /\ it.out = Flatten(it.pages)
          /\ Len(it.reqs) = Len(it.pages)
    /\ it.pc \in {"yielded", "done"} => Flattened(it)

\* a full page, then a short one that is not empty, then the end
C14_Witness ==
    /\ it.pc = "done" /\ Len(it.reqs) = 2 /\ call.count_per_request = 2
    /\ Len(it.pages[1]) = 2 /\ Len(it.pages[2]) = 1
    /\ it.out = <<Num(0), Num(1), Num(2)>>

\* ------------------------------------------------------------------------
\* C15: the i-th page request (i = 0, 1, ...) of iterator and of all_items
\* carries count = count_per_request and offset = start + i *
\* count_per_request, start being the offset of the caller (0 when there is
\* none), whatever the pages held; a count of the caller is dropped and every
\* other keyword argument is passed on unchanged.
\* ------------------------------------------------------------------------
C15_RequestArguments ==
    \A reqs \in {it.reqs, al.reqs} : \A j \in 1..Len(reqs) :
        /\ reqs[j]["count"] = Num(call.count_per_request)
        /\ reqs[j]["offset"] =
              Num((IF "offset" \in DOMAIN call.kwargs THEN call.kwargs["offset"].n ELSE 0)
                  + (j - 1) * call.count_per_request)
        /\ DOMAIN reqs[j] = (DOMAIN call.kwargs) \cup {"count", "offset"}
        /\ \A k \in (DOMAIN call.kwargs) \ {"count", "offset"} : reqs[j][k] = call.kwargs[k]

\* the caller passed count 4, offset 1 and a filter; the first page held one
\* item more than the one asked for and the second request is at offset 1 + 1
C15_Witness ==
    /\ call.kwargs = [count |-> Num(4), offset |-> Num(1), sha1 |-> Str("sha1")]
    /\ call.count_per_request = 1 /\ call.func.width = "long"
    /\ Len(it.reqs) = 3 /\ Len(it.pages[1]) = 2
    /\ it.reqs[2] = [count |-> Num(1), offset |-> Num(2), sha1 |-> Str("sha1")]
    /\ it.reqs[3] = [count |-> Num(1), offset |-> Num(3), sha1 |-> Str("sha1")]
    /\ al.reqs = it.reqs

\* ------------------------------------------------------------------------
\* C16: against a page-fetch function that serves items[offset : offset +
\* count] of N items, iterator with a page size k >= 1 and no starting offset
\* yields the N items once each, in order, and ends after at most N \div k + 1
\* requests, for bare pages and for pages under item_key.
\* ------------------------------------------------------------------------
C16_YieldsAllItems ==
    (/\ ServesSlices(call) /\ call.count_per_request >= 1
     /\ "offset" \notin DOMAIN call.kwargs) =>
        /\ IsPrefix(it.out, Range(call.func.total))
        /\ Len(it.reqs) <= (call.func.total \div call.count_per_request) + 1
        /\ it.pc \in {"created", "yielded", "done"}
        /\ it.pc = "done" => it.out = Range(call.func.total)
        /\ it.pc # "done" => (iterator_fetches(it, call) => Len(it.reqs) < MaxPages)

\* three items in pages of two under the key of an envelope
C16_Witness ==
    /\ it.pc = "done" /\ ServesSlices(call) /\ call.func.shape = "envelope"
    /\ call.func.total = 3 /\ call.count_per_request = 2
    /\ call.kwargs = [search |-> Str("lost")]
    /\ Len(it.reqs) = 2 /\ it.out = <<Num(0), Num(1), Num(2)>>

\* ------------------------------------------------------------------------
\* C17: with the same page-fetch function, page size, item key and starting
\* offset, all_items makes the same page requests as the iterator consumed to
\* its end, and returns the list of the items the iterator yields, in order;
\* one raises where the other does.
\* ------------------------------------------------------------------------
C17_AllItemsLikeIterator ==
    /\ IsPrefix(it.reqs, al.reqs) \/ IsPrefix(al.reqs, it.reqs)
    /\ (it.pc \in {"done", "raised"} /\ al.pc \in {"done", "raised"}) =>
          /\ it.pc = al.pc
          /\ it.err = al.err
          /\ it.reqs = al.reqs
          /\ it.pc = "done" => al.ret = it.out
    /\ al.pc # "done" => al.ret = <<>>

\* three items served from the second one on, in pages of one: two full
\* pages and an empty one
C17_Witness ==
    /\ it.pc = "done" /\ al.pc = "done"
    /\ call.kwargs = [count |-> Num(4), offset |-> Num(1), sha1 |-> Str("sha1")]
    /\ Len(al.reqs) = 3 /\ Len(it.reqs) = 3
    /\ al.ret = <<Num(1), Num(2)>> /\ it.out = <<Num(1), Num(2)>>
    /\ Len(al.pages[1]) = 1 /\ Len(al.pages[2]) = 1 /\ al.pages[3] = <<>>

\* ------------------------------------------------------------------------
\* Vocabulary of the CureIt properties
\* ------------------------------------------------------------------------
\* the identity was given to the constructor (and is not None)
Given(kwargs, key) == key \in DOMAIN kwargs /\ kwargs[key] # None

\* ------------------------------------------------------------------------
\* C18: CureIt(...) with neither analysis_id nor task_id raises the
\* validation error and no request has been made; with exactly one of them
\* it succeeds and the string form of the object names Analysis with the
\* analysis_id, or Task with the task_id, and the status.
\* ------------------------------------------------------------------------
C18_BoundOrRejected ==
    LET kw == cureit.kwargs
        a == Given(kw, "analysis_id")
        t == Given(kw, "task_id")
    IN  cureit.pc \in {"made", "raised"} =>
        /\ (~ a /\ ~ t) =>
              /\ cureit.pc = "raised" /\ cureit.raised = "VxCubeApiException"
              /\ cureit.net = <<>> /\ cureit.obj = Empty
        /\ (a # t) =>
              /\ cureit.pc = "made" /\ cureit.raised = "none"
              /\ cureit.net = <<>> =>
                    CureIt_repr(cureit.obj) =
                        [err |-> "none",
                         type |-> IF a THEN "Analysis" ELSE "Task",
                         id |-> IF a THEN kw["analysis_id"] ELSE kw["task_id"],
                         status |-> kw["status"]]

\* the construction of the test: a status and retries, no identity; it was
\* rejected and no request was made
C18_Witness ==
    /\ cureit.pc = "raised" /\ cureit.raised = "VxCubeApiException"
    /\ cureit.kwargs = [status |-> Str("successful"), retries |-> None]
    /\ cureit.net = <<>> /\ cureit.obj = Empty

\* ------------------------------------------------------------------------
\* C19: every CureIt that exists is bound to exactly one of Analysis and
\* Task: a construction with both analysis_id and task_id is rejected like
\* one with neither.
\* ------------------------------------------------------------------------
C19_BoundToExactlyOne ==
    /\ cureit.pc = "made" =>
          truthy(cureit.obj["analysis_id"]) # truthy(cureit.obj["task_id"])
    /\ (cureit.pc \in {"made", "raised"}
        /\ Given(cureit.kwargs, "analysis_id") /\ Given(cureit.kwargs, "task_id")) =>
          cureit.pc = "raised"

\* ------------------------------------------------------------------------
\* C20: can_retrying is true exactly when the status is deleted, or failed
\* with no retry-limit information, or failed with retries left; it is false
\* when failed with no retry left and a next-retry-after marker, and false for
\* successful, processing and small_file.
\* ------------------------------------------------------------------------
C20_CanRetrying ==
    cureit.pc = "made" =>
        LET obj == cureit.obj
            info == "retries" \in DOMAIN obj /\ truthy(obj["retries"])
            left == info /\ "left" \in DOMAIN obj["retries"].d /\ obj["retries"].d["left"].n > 0
        IN  CureIt_can_retrying(obj) =
                IF obj["status"] = Str("deleted") THEN "True"
                ELSE IF obj["status"] = Str("failed") /\ (~ info \/ left) THEN "True"
                ELSE "False"

C27_TotalProgressNeverFails ==
    Len(Tasks) >= 1 =>
        \A division \in Divisions :
            LET r == Analysis_total_progress(analysis, division)
            IN  /\ r.err = "none"
                /\ 0 <= r.whole
                /\ r.whole < 100 \/ (r.whole = 100 /\ r.rest = 0)

\* ------------------------------------------------------------------------
\* C28: a Task update whose payload carries no status, or the status the
\* Task already has, resets nothing: every attribute the payload does not
\* name keeps its value, and only the known attributes it names are
\* overwritten (with the payload's value).
\* ------------------------------------------------------------------------
C28_SameStatusResetsNothing ==
    \A i \in 1..Len(Tasks) :
        \A kw \in TaskKwargs(i) :
            LET was == lastcall.before["tasks"][i]
                now == Tasks[i]
            IN  (/\ Cardinality(TaskKwargs(i)) = 1
                 /\ "status" \in DOMAIN kw => kw["status"] = was["status"])
                =>
                /\ \A k \in (DOMAIN was) \ (DOMAIN kw) : k \in DOMAIN now /\ now[k] = was[k]
                /\ \A k \in (DOMAIN kw) \cap Task_slots :
                      /\ k \in DOMAIN now
                      /\ now[k] = IF k \in {"start_date", "end_date"}
                                  THEN convert_time(kw[k]) ELSE kw[k]
                /\ DOMAIN now = (DOMAIN was) \cup ((DOMAIN kw) \cap Task_slots)

\* a processing Task with progress 35 and a message was updated, through the
\* Analysis, by a payload with the same status and a new progress only: the
\* message is kept; verdict and rules stay unset
C28_Witness ==
    /\ lastcall.op = "Analysis.update"
    /\ Len(Tasks) >= 1
    /\ lastcall.before["tasks"][1]["status"] = Str("processing")
    /\ lastcall.before["tasks"][1]["progress"] = Num(35)
    /\ TaskKwargs(1) = {WithId([status |-> Str("processing"), progress |-> Num(65)], 1)}
    /\ Tasks[1]["progress"] = Num(65)
    /\ Tasks[1]["message"] = Str("m")

\* ------------------------------------------------------------------------
\* C29: a full-object update of an Analysis (Analysis.update,
\* Analysis.restart, refresh or the reconciliation fetch) leaves every local
\* Task whose identity is not in the payload's task list as it was, and
\* leaves every scalar field of the Analysis that the payload does not name
\* at its previous value.
\* ------------------------------------------------------------------------
C29_FullUpdateFrame ==
    lastcall.op \in {"Analysis.update", "Analysis.restart", "Analysis.refresh"} =>
        LET was == lastcall.before
            fresh == PoppedTasks(lastcall.kwargs)
            named == {getattr(fresh[k], "id", None) : k \in 1..Len(fresh)}
        IN  /\ Len(Tasks) = Len(was["tasks"])
            /\ \A i \in 1..Len(Tasks) :
                  was["tasks"][i]["id"] \notin named => Tasks[i] = was["tasks"][i]
            /\ \A k \in (DOMAIN was) \ ({"tasks"} \cup DOMAIN lastcall.kwargs) :
                  k \in DOMAIN analysis /\ analysis[k] = was[k]
            /\ DOMAIN analysis \subseteq (DOMAIN was) \cup (DOMAIN lastcall.kwargs)

\* an Analysis with two Tasks was restarted and the answer named Task 1 and
\* a Task that is not local: Task 1 changed, Task 2 is as it was, the id of
\* the Analysis is kept and the sha1 of the answer is set
C29_Witness ==
    /\ lastcall.op = "Analysis.restart"
    /\ Len(Tasks) = 2
    /\ {PoppedTasks(lastcall.kwargs)[k]["id"] : k \in 1..Len(PoppedTasks(lastcall.kwargs))}
          = {Num(UnknownTaskId), Num(1)}
    /\ Tasks[1] # lastcall.before["tasks"][1]
    /\ Tasks[2] = lastcall.before["tasks"][2]
    /\ Tasks[2]["status"] = Str("processing")
    /\ analysis["id"] = Num(1) /\ analysis["sha1"] = Str("abc")
    /\ "sha1" \notin DOMAIN lastcall.before

C23_RetriedOnce ==
    apicall.op \in {"send_request", "request"} =>
        LET session == apicall.did.session
            attempts == {k \in 1..Len(session) : session[k].op = "request"}
            closes == {k \in 1..Len(session) : session[k].op = "close"}
        IN  /\ Cardinality(attempts) <= 2
            /\ \A k \in attempts : session[k].arg = session[1].arg
            /\ Len(session) = Cardinality(attempts) + Cardinality(closes)
            /\ IF apicall.first.exc = "ConnectionError"
               THEN /\ attempts = {1, 3} /\ closes = {2}
                    /\ apicall.op = "send_request" => apicall.did.out = apicall.second
               ELSE /\ attempts = {1} /\ closes = {}
                    /\ apicall.op = "send_request" => apicall.did.out = apicall.first

\* the case of the test: the first attempt met a connection error, the
\* session was closed and the second attempt got the response
C23_Witness ==
    /\ apicall.op = "send_request"
    /\ apicall.first = Raised("ConnectionError")
    /\ apicall.did.session = <<Call("request", SendArgs, "ConnectionError"),
                               Call("close", None, "ok"),
                               Call("request", SendArgs, "none")>>
    /\ apicall.did.out.exc = "none"
    /\ apicall.did.out.resp.status_code = 200

\* ------------------------------------------------------------------------
\* C21: return_objects gives exactly one constructed object for a mapping,
\* one constructed object per element, in order, for a sequence (an empty
\* list for an empty sequence) and None, without calling the constructor,
\* for any other result; the constructor input has the back-reference to
\* the request mechanism added if and only if add_raw_api was configured.
\* ------------------------------------------------------------------------
C21_Hydration ==
    apicall.op = "return_objects" =>
        LET data == apicall.data
            calls == apicall.did.calls
            ret == apicall.did.ret
            Input(kw) == IF apicall.add_raw_api
                         THEN [k \in (DOMAIN kw) \cup {"_raw_api"} |->
                                 IF k = "_raw_api" THEN RawApi ELSE kw[k]]
                         ELSE kw
        IN  IF data.t = "dict"
            THEN /\ calls = <<Input(data.d)>>
                 /\ ret = Obj(calls[1])
            ELSE IF data.t \in {"list", "tuple"}
            THEN /\ Len(calls) = Len(data.d)
                 /\ \A i \in 1..Len(calls) : calls[i] = Input(data.d[i].d)
                 /\ ret.t = "list"
                 /\ Len(ret.d) = Len(calls)
                 /\ \A i \in 1..Len(calls) : ret.d[i] = Obj(calls[i])
            ELSE /\ calls = <<>>
                 /\ ret = None

\* the case of the test: a list of two payloads hydrated with add_raw_api
\* gives two objects in the order of the payloads, each with the
\* back-reference
C21_Witness ==
    /\ apicall.op = "return_objects"
    /\ apicall.add_raw_api
    /\ apicall.data = List(<<Dict([id |-> Num(1), test |-> Str("test")]),
                             Dict([id |-> Num(2), test |-> Str("test")])>>)
    /\ apicall.did.calls = <<[_raw_api |-> RawApi, id |-> Num(1), test |-> Str("test")],
                             [_raw_api |-> RawApi, id |-> Num(2), test |-> Str("test")]>>
    /\ Len(apicall.did.ret.d) = 2

\* ------------------------------------------------------------------------
\* C22: every response that is not successful makes request() raise the
\* typed exception with the status code of the response (no value is
\* returned, the failure is not swallowed), and the message is: the "error"
\* field of the body, else its "message" field, else the per-field summary
\* when the status code is 400 and the body is a non-empty JSON object, else
\* 'Unknown error'.
\* ------------------------------------------------------------------------
C22_FailedResponseRaises ==
    apicall.op = "request" =>
        LET got == IF apicall.first.exc = "ConnectionError" THEN apicall.second
                   ELSE apicall.first
            body == got.resp.body
            exc == apicall.did.exc
        IN  (got.exc = "none" /\ got.resp.status_code >= 400) =>
                /\ apicall.did.raised
                /\ exc.type = "VxCubeApiHttpException"
                /\ exc.code = got.resp.status_code
                /\ exc.msg =
                      IF body.valid /\ body.json.t = "dict" /\ "error" \in DOMAIN body.json.d
                      THEN body.json.d["error"]
                      ELSE IF body.valid /\ body.json.t = "dict"
                              /\ "message" \in DOMAIN body.json.d
                      THEN body.json.d["message"]
                      ELSE IF got.resp.status_code = 400 /\ body.valid
                              /\ body.json.t = "dict" /\ DOMAIN body.json.d # {}
                      THEN validation_summary(body.json)
                      ELSE Str("Unknown error")

\* ------------------------------------------------------------------------
\* C24: the URL of the subscription stream is the URL of the progress
\* endpoint with only its scheme replaced: https gives wss, http gives ws,
\* and host, port and path are those of the request URL.
\* ------------------------------------------------------------------------
C24_StreamUrl ==
    apicall.op = "ws.connect" =>
        LET request_url == progress_url(api)
            url == apicall.did.url
        IN  /\ Len(url) = Len(request_url)
            /\ \A k \in 2..Len(url) : url[k] = request_url[k]
            /\ request_url[1] = "https" => url[1] = "wss"
            /\ request_url[1] = "http" => url[1] = "ws"

\* the case of the test: the base https://test gives wss://test/api-2.0/ws/progress
C24_Witness ==
    /\ apicall.op = "ws.connect"
    /\ api["base_url"] = <<"https", "://", "test", "/", "api-2.0", "/">>
    /\ apicall.did.url = <<"wss", "://", "test", "/", "api-2.0", "/", "ws", "/", "progress">>

\* ------------------------------------------------------------------------
\* C26: after any sequence of assignments of the API key (construction, the
\* api_key setter, a successful login) the Authorization header of the
\* request mechanism is 'api-key ' followed by the current key ('api-key
\* None' when it is unset), and a subscription opened then presents exactly
\* the headers ordinary requests use.
\* ------------------------------------------------------------------------
C26_AuthorizationFollowsKey ==
    LET key == IF api["api_key"] = None THEN "None" ELSE api["api_key"].s
        headers == [k \in {"Authorization"} |->
                      [t |-> "format", s |-> "api-key {}", n |-> 0, d |-> <<key>>]]
    IN  /\ "Authorization" \in DOMAIN api["headers"]
        /\ api["headers"] = headers
        /\ apicall.op = "ws.connect" => apicall.did.header = headers
        /\ (apicall.op = "request" /\ apicall.headers = None) =>
              apicall.did.session[1].arg.headers = headers
        /\ (apicall.op = "login" /\ apicall.raised = "none") =>
              api["api_key"] = apicall.answer.ret.d["api_key"]
        /\ apicall.op = "api_key" => api["api_key"] = apicall.api_key

\* a login gave the key 'test' and the subscription opened after it presents
\* 'api-key test'
C26_Witness ==
    /\ api["api_key"] = Str("test")
    /\ apicall.op = "ws.connect"
    /\ apicall.did.header["Authorization"].d = <<"test">>

====
